---- MODULE Spec2Model ----
(***************************************************************************)
(* Tendermint misbehaviour evidence of ibc-rs:                             *)
(*   crates/ibc/src/clients/ics07_tendermint/misbehaviour.rs               *)
(*                                                                         *)
(* The model is a caller's session with the module's public surface.  A   *)
(* session starts idle, obtains a Misbehaviour (or an error) from one of   *)
(* the producing operations, may then use the value it holds               *)
(* (chain_id_matches, clone, encode to Any, decode the Any again) and      *)
(* finally drops everything.  Every operation is one action; its result    *)
(* is computed by the operator translated from the function's body.  Each  *)
(* result carries `ran`, the list of steps the call executed, in order.    *)
(*                                                                         *)
(* Collaborators that live outside misbehaviour.rs (Header, Height,        *)
(* ClientId, the error enum, ProdHasher, ProdCommitValidator, prost) are   *)
(* modelled at the boundary the file uses.                                 *)
(***************************************************************************)
EXTENDS Integers, Sequences, FiniteSets, TLC

VARIABLES
    op,      \* the operation the last step ran ("idle" before the first)
    args,    \* its inputs
    ret,     \* what it returned
    held,    \* the Misbehaviour the caller owns: Some(m) or None
    origin,  \* the operation that produced `held`
    wire,    \* the Any envelope the caller owns: Some(any) or None
    sent     \* the Misbehaviour that `wire` encodes, with its origin

vars == <<op, args, ret, held, origin, wire, sent>>

---------------------------------------------------------------------------
(* Bounds and value domains *)

\* Block heights of the headers range over 1..MaxHeight.
MaxHeight == 2

TENDERMINT_MISBEHAVIOUR_TYPE_URL == "/ibc.lightclients.tendermint.v1.Misbehaviour"

\* Type urls an envelope may carry: the Tendermint one and two foreign ones.
TypeUrls ==
    { TENDERMINT_MISBEHAVIOUR_TYPE_URL,
      "/ibc.lightclients.tendermint.v1.Header",
      "/ibc.lightclients.solomachine.v3.Misbehaviour" }

ChainIds == {"ibc-0", "ibc-1"}

\* Raw client id strings: two that the identifier parser accepts, one it rejects.
ClientIdStrs == {"07-tendermint-0", "07-tendermint-1", "bad id"}
ValidClientIdStrs == {"07-tendermint-0", "07-tendermint-1"}

ValidatorSets == {"vsA", "vsB"}

Success == "Success"
Invalid == "Invalid"
NotEnoughTrust == "NotEnoughTrust"

\* What a commit's signatures make ProdCommitValidator answer: the verdict of
\* validate and the verdict of validate_full on the same signed header.
SignatureShapes ==
    { [validate |-> Success, validate_full |-> Success],
      [validate |-> Success, validate_full |-> NotEnoughTrust],
      [validate |-> Invalid, validate_full |-> NotEnoughTrust] }

None == [some |-> FALSE]
Some(v) == [some |-> TRUE, v |-> v]

---------------------------------------------------------------------------
(* Collaborators: hashing, heights, headers *)

\* ProdHasher::hash_validator_set: a collision-free digest of the set.
HashValidatorSet(validators) == <<"validators", validators>>

\* ProdHasher::hash_header: a collision-free digest of the header's fields.
HashHeader(header) ==
    <<"header", header.chain_id, header.height, header.validators_hash,
      header.next_validators_hash>>

\* ChainId::chain_version: the revision number a chain id ends with.
ChainVersion(chain_id) == IF chain_id = "ibc-1" THEN 1 ELSE 0

\* Header::height: (revision of the chain id, block height).
HeaderHeight(h) ==
    [revision_number |-> ChainVersion(h.signed_header.header.chain_id),
     revision_height |-> h.signed_header.header.height]

\* Height's derived ordering: lexicographic on (revision_number, revision_height).
HeightLt(a, b) ==
    \/ a.revision_number < b.revision_number
    \/ /\ a.revision_number = b.revision_number
       /\ a.revision_height < b.revision_height

\* Header::as_untrusted_block_state: the view validation consumes.
AsUntrustedBlockState(h) ==
    [signed_header |-> h.signed_header,
     validators |-> h.validator_set,
     next_validators |-> h.next_validators]

\* The inner tendermint header of a Header under construction.
MkInner(chain_id, height, vals_hash) ==
    [chain_id |-> chain_id,
     height |-> height,
     validators_hash |-> vals_hash,
     next_validators_hash |-> HashValidatorSet("vsA")]

\* A Header: a signed header (header and commit), the validator set and the
\* optional next validator set.  `bound` says whether the commit's block id is
\* the hash of this very header or the hash of the header one block later.
MkHeader(chain_id, height, vals, next_vals, bound, sigs) ==
    LET inner == MkInner(chain_id, height, HashValidatorSet("vsA"))
        later == MkInner(chain_id, height + 1, HashValidatorSet("vsA"))
    IN  [signed_header |->
            [header |-> inner,
             commit |-> [block_id_hash |-> HashHeader(IF bound THEN inner ELSE later),
                         signatures |-> sigs]],
         validator_set |-> vals,
         next_validators |-> next_vals]

Headers ==
    { MkHeader(c, n, v, nv, b, s) :
        c \in ChainIds, n \in 1..MaxHeight, v \in ValidatorSets,
        nv \in {None} \cup {Some(x) : x \in ValidatorSets},
        b \in BOOLEAN, s \in SignatureShapes }

\* ClientId: FromStr accepts the valid identifier strings, Display prints them back.
ParseClientId(s) == IF s \in ValidClientIdStrs THEN Some([id |-> s]) ELSE None
ClientIdToString(client_id) == client_id.id
ClientIds == { [id |-> s] : s \in ValidClientIdStrs }

---------------------------------------------------------------------------
(* Results and errors *)

NoVal == [none |-> TRUE]
NoErr == [kind |-> "NoErr"]

Ok(v, ran) == [ok |-> TRUE, val |-> v, err |-> NoErr, ran |-> ran]
Err(e, ran) == [ok |-> FALSE, val |-> NoVal, err |-> e, ran |-> ran]

Step(fn, name, hdr) == [fn |-> fn, step |-> name, hdr |-> hdr]

ErrChainIds ==
    [kind |-> "InvalidRawMisbehaviour",
     reason |-> "headers must have identical chain_ids"]
ErrHeight(h1, h2) ==
    [kind |-> "InvalidRawMisbehaviour",
     reason |-> "headers1 height is less than header2 height",
     heights |-> <<h1, h2>>]
ErrMissingHeader1 == [kind |-> "InvalidRawMisbehaviour", reason |-> "missing header1"]
ErrMissingHeader2 == [kind |-> "InvalidRawMisbehaviour", reason |-> "missing header2"]
ErrInvalidRawClientId(s) == [kind |-> "InvalidRawClientId", client_id |-> s]
ErrDecode == [kind |-> "Decode"]

\* IntoResult for Verdict: Success is Ok, the two others are errors of their own.
IntoResult(verdict) ==
    IF verdict = Success THEN NoErr
    ELSE IF verdict = NotEnoughTrust THEN [kind |-> "NotEnoughTrustedValsSigned"]
    ELSE [kind |-> "VerificationError"]

\* From<Error> for ClientError: the client error wraps the Tendermint one.
IntoClientError(e) == [kind |-> "ClientSpecific", source |-> e]

ErrUnknownMisbehaviourType(type_url) ==
    [kind |-> "UnknownMisbehaviourType", misbehaviour_type |-> type_url]

---------------------------------------------------------------------------
(* Misbehaviour::new and its checks *)

\* ProdCommitValidator::validate and ::validate_full on a signed header.
Validate(signed_header, validators) == signed_header.commit.signatures.validate
ValidateFull(signed_header, validators) == signed_header.commit.signatures.validate_full

VerifyValidatorSets(validators_hash, header_validators_hash) ==
    IF header_validators_hash = validators_hash
    THEN NoErr
    ELSE [kind |-> "Validation",
          reason |-> "invalid validator set",
          hashes |-> <<header_validators_hash, validators_hash>>]

VerifyCurValidatorSets(untrusted_state) ==
    LET validators_hash == HashValidatorSet(untrusted_state.validators)
        header_validators_hash == untrusted_state.signed_header.header.validators_hash
    IN  [err |-> VerifyValidatorSets(validators_hash, header_validators_hash),
         ran |-> <<"verify_cur_validator_sets">>]

VerifyNextValidatorSets(untrusted_state) ==
    IF untrusted_state.next_validators.some
    THEN LET validators_hash == HashValidatorSet(untrusted_state.next_validators.v)
             header_validators_hash ==
                 untrusted_state.signed_header.header.next_validators_hash
         IN  [err |-> VerifyValidatorSets(validators_hash, header_validators_hash),
              ran |-> <<"verify_next_validator_sets">>]
    ELSE [err |-> NoErr, ran |-> <<>>]

VerifyHeaderCommit(untrusted_state) ==
    LET header_hash == HashHeader(untrusted_state.signed_header.header)
        commit_hash == untrusted_state.signed_header.commit.block_id_hash
    IN  [err |-> IF header_hash = commit_hash
                 THEN NoErr
                 ELSE [kind |-> "Validation",
                       reason |-> "invalid header commit",
                       hashes |-> <<header_hash, commit_hash>>],
         ran |-> <<"verify_header_commit">>]

\* Faulty variant: validate_full is never consulted.
ValidCommitQuickOnly(untrusted_state) ==
    [err |-> IntoResult(Validate(untrusted_state.signed_header,
                                 untrusted_state.validators)),
     ran |-> <<"validate">>]

\* Faulty variant: both validators run before either verdict is looked at.
ValidCommitNoShortCircuit(untrusted_state) ==
    LET signed_header == untrusted_state.signed_header
        validators == untrusted_state.validators
        first == IntoResult(Validate(signed_header, validators))
        second == IntoResult(ValidateFull(signed_header, validators))
    IN  [err |-> IF first # NoErr THEN first ELSE second,
         ran |-> <<"validate", "validate_full">>]

ValidCommit(untrusted_state) ==
    LET signed_header == untrusted_state.signed_header
        validators == untrusted_state.validators
        first == IntoResult(Validate(signed_header, validators))
    IN  IF first # NoErr
        THEN [err |-> first, ran |-> <<"validate">>]
        ELSE [err |-> IntoResult(ValidateFull(signed_header, validators)),
              ran |-> <<"validate", "validate_full">>]

\* The steps of one check, labelled with the header (1 or 2) it ran on.
Labelled(check, hdr) == [i \in 1..Len(check.ran) |-> Step("new", check.ran[i], hdr)]

\* The `?` chain: run the checks in order, stop at the first error.
RECURSIVE RunChecks(_, _, _)
RunChecks(checks, i, ran) ==
    IF i > Len(checks)
    THEN [err |-> NoErr, ran |-> ran]
    ELSE LET c == checks[i]
             now == ran \o Labelled(c.check, c.hdr)
         IN  IF c.check.err # NoErr
             THEN [err |-> c.check.err, ran |-> now]
             ELSE RunChecks(checks, i + 1, now)

\* Faulty variant: all checks of header1 run before any check of header2.
HeaderChecksPerHeader(u1, u2) ==
    << [check |-> VerifyCurValidatorSets(u1), hdr |-> 1],
       [check |-> VerifyNextValidatorSets(u1), hdr |-> 1],
       [check |-> VerifyHeaderCommit(u1), hdr |-> 1],
       [check |-> ValidCommit(u1), hdr |-> 1],
       [check |-> VerifyCurValidatorSets(u2), hdr |-> 2],
       [check |-> VerifyNextValidatorSets(u2), hdr |-> 2],
       [check |-> VerifyHeaderCommit(u2), hdr |-> 2],
       [check |-> ValidCommit(u2), hdr |-> 2] >>

\* Lines 52-60: the per-header checks in the order the constructor calls them.
HeaderChecks(u1, u2) ==
    << [check |-> VerifyCurValidatorSets(u1), hdr |-> 1],
       [check |-> VerifyCurValidatorSets(u2), hdr |-> 2],
       [check |-> VerifyNextValidatorSets(u1), hdr |-> 1],
       [check |-> VerifyNextValidatorSets(u2), hdr |-> 2],
       [check |-> VerifyHeaderCommit(u1), hdr |-> 1],
       [check |-> VerifyHeaderCommit(u2), hdr |-> 2],
       [check |-> ValidCommit(u1), hdr |-> 1],
       [check |-> ValidCommit(u2), hdr |-> 2] >>

\* Faulty variant: header1 must be strictly above header2.
HeightNotAbove(header1, header2) == ~HeightLt(HeaderHeight(header2), HeaderHeight(header1))

\* Line 39: header1.height() < header2.height().
HeightBelow(header1, header2) == HeightLt(HeaderHeight(header1), HeaderHeight(header2))

MkMisbehaviour(client_id, header1, header2) ==
    [client_id |-> client_id, header1 |-> header1, header2 |-> header2]

New(client_id, header1, header2) ==
    IF header1.signed_header.header.chain_id # header2.signed_header.header.chain_id
    THEN Err(ErrChainIds, <<Step("new", "chain_id", 0)>>)
    ELSE IF HeightBelow(header1, header2)
    THEN Err(ErrHeight(HeaderHeight(header1), HeaderHeight(header2)),
             <<Step("new", "chain_id", 0), Step("new", "height", 0)>>)
    ELSE LET untrusted_state_1 == AsUntrustedBlockState(header1)
             untrusted_state_2 == AsUntrustedBlockState(header2)
             r == RunChecks(HeaderChecks(untrusted_state_1, untrusted_state_2), 1,
                            <<Step("new", "chain_id", 0), Step("new", "height", 0)>>)
         IN  IF r.err # NoErr
             THEN Err(r.err, r.ran)
             ELSE Ok(MkMisbehaviour(client_id, header1, header2), r.ran)

---------------------------------------------------------------------------
(* The wire: RawHeader, RawMisbehaviour, protobuf bytes, Any *)

\* From<Header> for RawHeader: every sub-message present.
HeaderIntoRaw(h) ==
    [signed_header |-> Some(h.signed_header),
     validator_set |-> Some(h.validator_set),
     next_validators |-> h.next_validators]

\* TryFrom<RawHeader> for Header: a missing sub-message is an error.
HeaderTryFromRaw(raw) ==
    IF ~raw.signed_header.some THEN Err([kind |-> "MissingSignedHeader"], <<>>)
    ELSE IF ~raw.validator_set.some THEN Err([kind |-> "MissingValidatorSet"], <<>>)
    ELSE Ok([signed_header |-> raw.signed_header.v,
             validator_set |-> raw.validator_set.v,
             next_validators |-> raw.next_validators], <<>>)

\* Raw headers a peer may send: every header's encoding and two malformed ones.
RawHeaders ==
    { HeaderIntoRaw(h) : h \in Headers } \cup
    { [signed_header |-> None, validator_set |-> Some("vsA"), next_validators |-> None],
      [signed_header |-> Some(MkHeader("ibc-0", 1, "vsA", None, TRUE,
                                       [validate |-> Success,
                                        validate_full |-> Success]).signed_header),
       validator_set |-> None, next_validators |-> None] }

OptRawHeaders == {None} \cup { Some(r) : r \in RawHeaders }

MkRawMisbehaviour(client_id, header_1, header_2) ==
    [client_id |-> client_id, header_1 |-> header_1, header_2 |-> header_2]

\* prost: a buffer either is the encoding of a RawMisbehaviour or does not decode.
Garbage == [decodes |-> FALSE]
EncodeVec(raw) == [decodes |-> TRUE, msg |-> raw]
ProstDecode(buf) == IF buf.decodes THEN Ok(buf.msg, <<>>) ELSE Err(ErrDecode, <<>>)

MkAny(type_url, value) == [type_url |-> type_url, value |-> value]

\* Faulty variant: the struct is built from the parsed parts without Self::new.
TryFromRawUnchecked(raw) ==
    LET client_id == ParseClientId(raw.client_id)
        parsed == <<Step("try_from", "client_id", 0)>>
    IN  IF ~client_id.some
        THEN Err(ErrInvalidRawClientId(raw.client_id), parsed)
        ELSE IF ~raw.header_1.some
        THEN Err(ErrMissingHeader1, parsed \o <<Step("try_from", "header_1", 1)>>)
        ELSE LET header1 == HeaderTryFromRaw(raw.header_1.v)
                 got1 == parsed \o <<Step("try_from", "header_1", 1)>>
             IN  IF ~header1.ok
                 THEN Err(header1.err, got1)
                 ELSE IF ~raw.header_2.some
                 THEN Err(ErrMissingHeader2, got1 \o <<Step("try_from", "header_2", 2)>>)
                 ELSE LET header2 == HeaderTryFromRaw(raw.header_2.v)
                          got2 == got1 \o <<Step("try_from", "header_2", 2)>>
                      IN  IF ~header2.ok
                          THEN Err(header2.err, got2)
                          ELSE Ok(MkMisbehaviour(client_id.v, header1.val, header2.val),
                                  got2)

\* Faulty variant: a missing header2 is replaced by header1 instead of being reported.
TryFromRawDefaultHeader2(raw) ==
    LET client_id == ParseClientId(raw.client_id)
        parsed == <<Step("try_from", "client_id", 0)>>
    IN  IF ~client_id.some
        THEN Err(ErrInvalidRawClientId(raw.client_id), parsed)
        ELSE IF ~raw.header_1.some
        THEN Err(ErrMissingHeader1, parsed \o <<Step("try_from", "header_1", 1)>>)
        ELSE LET header1 == HeaderTryFromRaw(raw.header_1.v)
                 got1 == parsed \o <<Step("try_from", "header_1", 1)>>
             IN  IF ~header1.ok
                 THEN Err(header1.err, got1)
                 ELSE LET header2 == IF raw.header_2.some
                                     THEN HeaderTryFromRaw(raw.header_2.v)
                                     ELSE header1
                          got2 == got1 \o <<Step("try_from", "header_2", 2)>>
                      IN  IF ~header2.ok
                          THEN Err(header2.err, got2)
                          ELSE LET r == New(client_id.v, header1.val, header2.val)
                               IN  [r EXCEPT !.ran = got2 \o r.ran]

TryFromRaw(raw) ==
    LET client_id == ParseClientId(raw.client_id)
        parsed == <<Step("try_from", "client_id", 0)>>
    IN  IF ~client_id.some
        THEN Err(ErrInvalidRawClientId(raw.client_id), parsed)
        ELSE IF ~raw.header_1.some
        THEN Err(ErrMissingHeader1, parsed \o <<Step("try_from", "header_1", 1)>>)
        ELSE LET header1 == HeaderTryFromRaw(raw.header_1.v)
                 got1 == parsed \o <<Step("try_from", "header_1", 1)>>
             IN  IF ~header1.ok
                 THEN Err(header1.err, got1)
                 ELSE IF ~raw.header_2.some
                 THEN Err(ErrMissingHeader2, got1 \o <<Step("try_from", "header_2", 2)>>)
                 ELSE LET header2 == HeaderTryFromRaw(raw.header_2.v)
                          got2 == got1 \o <<Step("try_from", "header_2", 2)>>
                      IN  IF ~header2.ok
                          THEN Err(header2.err, got2)
                          ELSE LET r == New(client_id.v, header1.val, header2.val)
                               IN  [r EXCEPT !.ran = got2 \o r.ran]

\* Faulty variant: the two headers are written to each other's field.
MisbehaviourIntoRawSwapped(value) ==
    [client_id |-> ClientIdToString(value.client_id),
     header_1 |-> Some(HeaderIntoRaw(value.header2)),
     header_2 |-> Some(HeaderIntoRaw(value.header1))]

MisbehaviourIntoRaw(value) ==
    [client_id |-> ClientIdToString(value.client_id),
     header_1 |-> Some(HeaderIntoRaw(value.header1)),
     header_2 |-> Some(HeaderIntoRaw(value.header2))]

\* pub fn decode_misbehaviour (lines 243-247).
DecodeMisbehaviour(buf) ==
    LET raw == ProstDecode(buf)
        decoded == <<Step("decode", "decode", 0)>>
    IN  IF ~raw.ok
        THEN Err(raw.err, decoded)
        ELSE LET r == TryFromRaw(raw.val)
             IN  [r EXCEPT !.ran = decoded \o r.ran]

\* The decode_misbehaviour nested in TryFrom<Any> (lines 216-220).
InnerDecodeMisbehaviour(buf) ==
    LET raw == ProstDecode(buf)
        decoded == <<Step("decode", "decode", 0)>>
    IN  IF ~raw.ok
        THEN Err(raw.err, decoded)
        ELSE LET r == TryFromRaw(raw.val)
             IN  [r EXCEPT !.ran = decoded \o r.ran]

\* Faulty variant: the payload is decoded whatever the type url says.
TryFromAnyIgnoringTag(raw) ==
    LET r == InnerDecodeMisbehaviour(raw.value)
    IN  IF r.ok THEN r ELSE Err(IntoClientError(r.err), r.ran)

TryFromAny(raw) ==
    IF raw.type_url = TENDERMINT_MISBEHAVIOUR_TYPE_URL
    THEN LET r == InnerDecodeMisbehaviour(raw.value)
         IN  IF r.ok THEN r ELSE Err(IntoClientError(r.err), r.ran)
    ELSE Err(ErrUnknownMisbehaviourType(raw.type_url), <<>>)

MisbehaviourIntoAny(misbehaviour) ==
    [type_url |-> TENDERMINT_MISBEHAVIOUR_TYPE_URL,
     value |-> EncodeVec(MisbehaviourIntoRaw(misbehaviour))]

\* chain_id_matches: the assert_eq! panics, otherwise the comparison is returned.
ChainIdMatches(self, chain_id) ==
    IF self.header1.signed_header.header.chain_id
           # self.header2.signed_header.header.chain_id
    THEN [panicked |-> TRUE, matches |-> FALSE]
    ELSE [panicked |-> FALSE,
          matches |-> self.header1.signed_header.header.chain_id = chain_id]

\* The derived serde Deserialize: the struct is built from its three fields.
Deserialize(client_id, header1, header2) ==
    Ok(MkMisbehaviour(client_id, header1, header2), <<Step("serde", "deserialize", 0)>>)

---------------------------------------------------------------------------
(* The session *)

NoArgs == [none |-> TRUE]

Init ==
    /\ op = "idle"
    /\ args = NoArgs
    /\ ret = Ok(NoVal, <<>>)
    /\ held = None
    /\ origin = "none"
    /\ wire = None
    /\ sent = None

\* What the caller owns after a producing operation returned `r`.
Obtain(r, how) ==
    /\ held' = IF r.ok THEN Some(r.val) ELSE None
    /\ origin' = IF r.ok THEN how ELSE "none"

CallNew ==
    /\ op = "idle"
    /\ \E client_id \in ClientIds, header1 \in Headers, header2 \in Headers :
          LET r == New(client_id, header1, header2)
          IN  /\ op' = "new"
              /\ args' = [client_id |-> client_id, header1 |-> header1, header2 |-> header2]
              /\ ret' = r
              /\ Obtain(r, "new")
    /\ UNCHANGED <<wire, sent>>

CallTryFromRaw ==
    /\ op = "idle"
    /\ \E s \in ClientIdStrs, a \in OptRawHeaders, b \in OptRawHeaders :
          LET raw == MkRawMisbehaviour(s, a, b)
              r == TryFromRaw(raw)
          IN  /\ op' = "try_from_raw"
              /\ args' = [raw |-> raw]
              /\ ret' = r
              /\ Obtain(r, "try_from_raw")
    /\ UNCHANGED <<wire, sent>>

DecodeMisbehaviourOf(buf) ==
    LET r == DecodeMisbehaviour(buf)
    IN  /\ op' = "decode_misbehaviour"
        /\ args' = [buf |-> buf]
        /\ ret' = r
        /\ Obtain(r, "decode_misbehaviour")

\* decode_misbehaviour on a buffer a peer sent: undecodable bytes, or the
\* encoding of some RawMisbehaviour.
CallDecodeMisbehaviour ==
    /\ op = "idle"
    /\ \/ DecodeMisbehaviourOf(Garbage)
       \/ \E s \in ClientIdStrs, a \in OptRawHeaders, b \in OptRawHeaders :
             DecodeMisbehaviourOf(EncodeVec(MkRawMisbehaviour(s, a, b)))
    /\ UNCHANGED <<wire, sent>>

TryFromAnyOf(any) ==
    LET r == TryFromAny(any)
    IN  /\ op' = "try_from_any"
        /\ args' = [any |-> any]
        /\ ret' = r
        /\ Obtain(r, "try_from_any")

\* TryFrom<Any>, on the envelope the caller encoded or on one a peer sent.
CallTryFromAny ==
    /\ \/ wire.some /\ TryFromAnyOf(wire.v)
       \/ /\ op = "idle"
          /\ \E t \in TypeUrls :
                \/ TryFromAnyOf(MkAny(t, Garbage))
                \/ \E s \in ClientIdStrs, a \in OptRawHeaders, b \in OptRawHeaders :
                      TryFromAnyOf(MkAny(t, EncodeVec(MkRawMisbehaviour(s, a, b))))
    /\ wire' = None
    /\ UNCHANGED sent

\* serde::Deserialize for Misbehaviour (feature "serde").
CallDeserialize ==
    /\ op = "idle"
    /\ \E client_id \in ClientIds, header1 \in Headers, header2 \in Headers :
          LET r == Deserialize(client_id, header1, header2)
          IN  /\ op' = "deserialize"
              /\ args' = [client_id |-> client_id, header1 |-> header1, header2 |-> header2]
              /\ ret' = r
              /\ Obtain(r, "deserialize")
    /\ UNCHANGED <<wire, sent>>

\* Clone: the caller holds an equal value of the same provenance.
CallClone ==
    /\ held.some
    /\ op' = "clone"
    /\ args' = [self |-> held.v]
    /\ ret' = Ok(held.v, <<>>)
    /\ UNCHANGED <<held, origin, wire, sent>>

CallChainIdMatches ==
    /\ held.some
    /\ \E chain_id \in ChainIds :
          /\ op' = "chain_id_matches"
          /\ args' = [self |-> held.v, chain_id |-> chain_id]
          /\ ret' = ChainIdMatches(held.v, chain_id)
    /\ UNCHANGED <<held, origin, wire, sent>>

\* From<Misbehaviour> for Any: the value is moved into the envelope.
CallIntoAny ==
    /\ held.some
    /\ op' = "into_any"
    /\ args' = [self |-> held.v]
    /\ ret' = Ok(NoVal, <<>>)
    /\ wire' = Some(MisbehaviourIntoAny(held.v))
    /\ sent' = Some([value |-> held.v, origin |-> origin])
    /\ held' = None
    /\ origin' = "none"

Drop ==
    /\ op # "idle"
    /\ op' = "idle"
    /\ args' = NoArgs
    /\ ret' = Ok(NoVal, <<>>)
    /\ held' = None
    /\ origin' = "none"
    /\ wire' = None
    /\ sent' = None

Next ==
    \/ CallNew
    \/ CallTryFromRaw
    \/ CallDecodeMisbehaviour
    \/ CallTryFromAny
    \/ CallDeserialize
    \/ CallClone
    \/ CallChainIdMatches
    \/ CallIntoAny
    \/ Drop

Spec == Init /\ [][Next]_vars

---------------------------------------------------------------------------
(* What the claims speak about, stated on the headers themselves *)

Inner(h) == h.signed_header.header
SameChain(h1, h2) == Inner(h1).chain_id = Inner(h2).chain_id
Lower(h1, h2) ==
    \/ ChainVersion(Inner(h1).chain_id) < ChainVersion(Inner(h2).chain_id)
    \/ /\ ChainVersion(Inner(h1).chain_id) = ChainVersion(Inner(h2).chain_id)
       /\ Inner(h1).height < Inner(h2).height
CurHashOk(h) == Inner(h).validators_hash = HashValidatorSet(h.validator_set)
NextHashOk(h) ==
    h.next_validators.some =>
        Inner(h).next_validators_hash = HashValidatorSet(h.next_validators.v)
BindingOk(h) == h.signed_header.commit.block_id_hash = HashHeader(Inner(h))
HashesOk(h) == CurHashOk(h) /\ NextHashOk(h) /\ BindingOk(h)
QuickOk(h) == h.signed_header.commit.signatures.validate = Success
FullOk(h) == h.signed_header.commit.signatures.validate_full = Success
CommitOk(h) == QuickOk(h) /\ FullOk(h)
HeaderValid(h) == HashesOk(h) /\ CommitOk(h)

ConstructionInvariants(m) ==
    /\ SameChain(m.header1, m.header2)
    /\ ~Lower(m.header1, m.header2)
    /\ HeaderValid(m.header1)
    /\ HeaderValid(m.header2)

IsHashError(e) == e.kind = "Validation"
IsCommitError(e) == e.kind \in {"VerificationError", "NotEnoughTrustedValsSigned"}
IsHeightError(e) ==
    e.kind = "InvalidRawMisbehaviour"
        /\ e.reason = "headers1 height is less than header2 height"
IsValidationError(e) ==
    e = ErrChainIds \/ IsHeightError(e) \/ IsHashError(e) \/ IsCommitError(e)

\* C1: the error of Misbehaviour::new follows the priority chain-id mismatch,
\* then height ordering, then any hash mismatch on either header, and a
\* commit error is returned only when none of those fails on either header.
C1_ErrorPriority ==
    op = "new" =>
        LET h1 == args.header1
            h2 == args.header2
        IN  /\ ~SameChain(h1, h2) => ~ret.ok /\ ret.err = ErrChainIds
            /\ SameChain(h1, h2) /\ Lower(h1, h2) =>
                   ~ret.ok /\ ret.err = ErrHeight(HeaderHeight(h1), HeaderHeight(h2))
            /\ SameChain(h1, h2) /\ ~Lower(h1, h2) /\ ~(HashesOk(h1) /\ HashesOk(h2)) =>
                   ~ret.ok /\ IsHashError(ret.err)
            /\ IsCommitError(ret.err) =>
                   /\ ~ret.ok
                   /\ SameChain(h1, h2) /\ ~Lower(h1, h2)
                   /\ HashesOk(h1) /\ HashesOk(h2)
                   /\ ~(CommitOk(h1) /\ CommitOk(h2))

\* A hash mismatch on header2 outranks an invalid commit on header1.
C1_Witness ==
    /\ op = "new"
    /\ SameChain(args.header1, args.header2) /\ ~Lower(args.header1, args.header2)
    /\ HashesOk(args.header1) /\ ~CommitOk(args.header1)
    /\ ~BindingOk(args.header2)
    /\ IsHashError(ret.err)

\* C2: Misbehaviour::new returns Ok only if the chain ids agree, header1 is not
\* below header2 and both headers pass every hash and commit check; when any
\* of these fails the result is an error and no value is returned.
C2_OkOnlyIfAllChecksPass ==
    op = "new" =>
        LET m == MkMisbehaviour(args.client_id, args.header1, args.header2)
        IN  /\ ret.ok => ConstructionInvariants(m) /\ ret.val = m /\ held = Some(m)
            /\ ~ConstructionInvariants(m) =>
                   ~ret.ok /\ ret.val = NoVal /\ ret.err # NoErr /\ held = None

\* Only validate_full fails, on header2 only: the constructor rejects.
C2_Witness ==
    /\ op = "new"
    /\ SameChain(args.header1, args.header2) /\ ~Lower(args.header1, args.header2)
    /\ HeaderValid(args.header1)
    /\ HashesOk(args.header2) /\ QuickOk(args.header2) /\ ~FullOk(args.header2)
    /\ ~ret.ok /\ held = None

\* C3: every Misbehaviour value obtained through the public surface satisfies
\* the construction invariants.
C3_HeldIsValid ==
    held.some => ConstructionInvariants(held.v)

\* C3, without the derived Deserialize: every value obtained from
\* Misbehaviour::new, the decoders or a clone of such a value satisfies the
\* construction invariants.
C3_ValidUnlessDeserialized ==
    (held.some /\ origin # "deserialize") => ConstructionInvariants(held.v)

\* The payload of a decoding call, and whether it was reached at all.
Decoding == op \in {"try_from_raw", "decode_misbehaviour", "try_from_any"}
Recognised ==
    op = "try_from_any" => args.any.type_url = TENDERMINT_MISBEHAVIOUR_TYPE_URL
Buffer == IF op = "try_from_any" THEN args.any.value ELSE args.buf
BufferDecodes == op = "try_from_raw" \/ Buffer.decodes
RawArg == IF op = "try_from_raw" THEN args.raw ELSE Buffer.msg
\* The Tendermint error of the call: TryFrom<Any> wraps it into a ClientError.
InnerErr ==
    IF op = "try_from_any" /\ ret.err.kind = "ClientSpecific"
    THEN ret.err.source ELSE ret.err
HeaderPresent(o) == o.some /\ o.v.signed_header.some /\ o.v.validator_set.some
HeaderOf(o) ==
    [signed_header |-> o.v.signed_header.v,
     validator_set |-> o.v.validator_set.v,
     next_validators |-> o.v.next_validators]
WellFormed(raw) ==
    /\ raw.client_id \in ValidClientIdStrs
    /\ HeaderPresent(raw.header_1)
    /\ HeaderPresent(raw.header_2)
TripleOf(raw) ==
    MkMisbehaviour([id |-> raw.client_id], HeaderOf(raw.header_1), HeaderOf(raw.header_2))
NoFactoryStep(ran) == \A i \in 1..Len(ran) : ran[i].fn # "new"

\* C4: decoding an envelope with the Tendermint tag whose payload deserializes
\* to (client_id, header1, header2) gives the result of Misbehaviour::new on
\* that triple: Ok with the same value, or the factory's error as a client
\* error; it is never Ok for a triple the factory rejects.
C4_DecodeIsNew ==
    (op = "try_from_any" /\ Recognised /\ BufferDecodes /\ WellFormed(RawArg)) =>
        LET m == TripleOf(RawArg)
            n == New(m.client_id, m.header1, m.header2)
        IN  /\ ret.ok = n.ok
            /\ ret.ok => ret.val = m /\ ConstructionInvariants(m)
            /\ ~ret.ok => ret.err = IntoClientError(n.err) /\ IsValidationError(n.err)
            /\ ~ConstructionInvariants(m) => ~ret.ok /\ held = None

\* A well-formed payload whose headers have an invalid commit is rejected
\* with the factory's error.
C4_Witness ==
    /\ op = "try_from_any" /\ Recognised /\ BufferDecodes /\ WellFormed(RawArg)
    /\ ~CommitOk(HeaderOf(RawArg.header_2))
    /\ ~ret.ok /\ ret.err.kind = "ClientSpecific" /\ IsCommitError(ret.err.source)

\* C5: an envelope with any other type tag fails with the unknown-misbehaviour-
\* type error carrying exactly that tag, whatever the payload, and the payload
\* is neither parsed nor validated.
C5_UnknownTag ==
    (op = "try_from_any" /\ ~Recognised) =>
        /\ ~ret.ok
        /\ ret.err = ErrUnknownMisbehaviourType(args.any.type_url)
        /\ ret.ran = <<>>
        /\ held = None

\* A foreign tag on a payload that the Tendermint tag would have accepted.
C5_Witness ==
    /\ op = "try_from_any" /\ ~Recognised
    /\ BufferDecodes /\ WellFormed(RawArg) /\ ConstructionInvariants(TripleOf(RawArg))
    /\ ret.err.kind = "UnknownMisbehaviourType"
    /\ ret.err.misbehaviour_type = "/ibc.lightclients.solomachine.v3.Misbehaviour"

DefectErrors(raw) ==
    (IF raw.client_id \notin ValidClientIdStrs
     THEN {ErrInvalidRawClientId(raw.client_id)} ELSE {}) \cup
    (IF ~raw.header_1.some THEN {ErrMissingHeader1} ELSE {}) \cup
    (IF ~raw.header_2.some THEN {ErrMissingHeader2} ELSE {})
MalformedHeader(o) == o.some /\ ~(o.v.signed_header.some /\ o.v.validator_set.some)

\* C7: under the recognised tag a malformed input (undecodable bytes, invalid
\* client id, missing header1, missing header2) fails before any check of the
\* factory runs, whatever the headers, with an error of its own: the error of
\* a defect the payload has, distinct from every validation error.
C7_MalformedFirst ==
    /\ (op = "new" /\ ~ret.ok) => IsValidationError(ret.err)
    /\ (Decoding /\ Recognised /\ ~BufferDecodes) =>
           ~ret.ok /\ InnerErr = ErrDecode /\ NoFactoryStep(ret.ran)
    /\ (Decoding /\ Recognised /\ BufferDecodes /\ DefectErrors(RawArg) # {}) =>
           /\ ~ret.ok
           /\ NoFactoryStep(ret.ran)
           /\ ~IsValidationError(InnerErr)
           /\ InnerErr # ErrDecode
           /\ (~MalformedHeader(RawArg.header_1) /\ ~MalformedHeader(RawArg.header_2))
                  => InnerErr \in DefectErrors(RawArg)

\* Header2 is missing and header1 alone would fail validation.
C7_Witness ==
    /\ op = "decode_misbehaviour" /\ BufferDecodes
    /\ RawArg.client_id \in ValidClientIdStrs
    /\ HeaderPresent(RawArg.header_1) /\ ~HeaderValid(HeaderOf(RawArg.header_1))
    /\ ~RawArg.header_2.some
    /\ ret.err = ErrMissingHeader2

\* C8: chain_id_matches never trips its assertion and answers whether the
\* candidate is the chain id of header1, which is that of header2.
C8_ChainIdMatches ==
    op = "chain_id_matches" =>
        /\ ~ret.panicked
        /\ SameChain(args.self.header1, args.self.header2)
        /\ ret.matches = (args.chain_id = Inner(args.self.header1).chain_id)

\* C8, without the derived Deserialize: on a value obtained from
\* Misbehaviour::new or the decoders the assertion holds and the answer is
\* whether the candidate is header1's chain id.
C8_HoldsUnlessDeserialized ==
    (op = "chain_id_matches" /\ origin # "deserialize") =>
        /\ ~ret.panicked
        /\ SameChain(args.self.header1, args.self.header2)
        /\ ret.matches = (args.chain_id = Inner(args.self.header1).chain_id)

\* C9: two identical headers that pass every per-header check are accepted;
\* the height check rejects only header1 below header2.
C9_EqualHeadersAccepted ==
    op = "new" =>
        /\ (args.header1 = args.header2 /\ HeaderValid(args.header1)) => ret.ok
        /\ (SameChain(args.header1, args.header2)
              /\ Inner(args.header1).height = Inner(args.header2).height
              /\ HeaderValid(args.header1) /\ HeaderValid(args.header2)) => ret.ok
        /\ IsHeightError(ret.err) => Lower(args.header1, args.header2)

C9_Witness ==
    /\ op = "new"
    /\ args.header1 = args.header2
    /\ HeaderValid(args.header1)
    /\ ret.ok /\ held.some

\* The checks of the constructor in the documented order, each with whether
\* it passes on these headers.
Check(name, hdr, passes) == [at |-> Step("new", name, hdr), passes |-> passes]
NextCheck(h, hdr) ==
    IF h.next_validators.some
    THEN <<Check("verify_next_validator_sets", hdr, NextHashOk(h))>>
    ELSE <<>>
DocumentedOrder(h1, h2) ==
    << Check("chain_id", 0, SameChain(h1, h2)),
       Check("height", 0, ~Lower(h1, h2)),
       Check("verify_cur_validator_sets", 1, CurHashOk(h1)),
       Check("verify_cur_validator_sets", 2, CurHashOk(h2)) >>
    \o NextCheck(h1, 1) \o NextCheck(h2, 2) \o
    << Check("verify_header_commit", 1, BindingOk(h1)),
       Check("verify_header_commit", 2, BindingOk(h2)),
       Check("validate", 1, QuickOk(h1)),
       Check("validate_full", 1, FullOk(h1)),
       Check("validate", 2, QuickOk(h2)),
       Check("validate_full", 2, FullOk(h2)) >>

\* C10: Misbehaviour::new runs its checks in one total order and returns at
\* the first that fails: the steps it ran are the documented order up to and
\* including the first failing check, and all of it when none fails.
C10_FailFastOrder ==
    op = "new" =>
        LET order == DocumentedOrder(args.header1, args.header2)
            n == Len(ret.ran)
        IN  /\ n >= 1 /\ n <= Len(order)
            /\ \A i \in 1..n : ret.ran[i] = order[i].at
            /\ \A i \in 1..(n - 1) : order[i].passes
            /\ ret.ok <=> order[n].passes
            /\ ret.ok => n = Len(order)
            /\ (~order[n].passes /\ order[n].at.step \in {"validate", "validate_full"})
                   => IsCommitError(ret.err)

\* Header1's only defect is validate_full; header2 has a broken commit binding
\* that is checked earlier and reported.
C10_Witness ==
    /\ op = "new"
    /\ SameChain(args.header1, args.header2) /\ ~Lower(args.header1, args.header2)
    /\ HashesOk(args.header1) /\ QuickOk(args.header1) /\ ~FullOk(args.header1)
    /\ CurHashOk(args.header2) /\ NextHashOk(args.header2) /\ ~BindingOk(args.header2)
    /\ ret.ran[Len(ret.ran)] = Step("new", "verify_header_commit", 2)

====
